---- MODULE Spec2Model ----
(***************************************************************************)
(* Turn-taking orchestration of the voice conversation agent.              *)
(*                                                                         *)
(* The coordinator is the React provider of src/lib/ConversationContext    *)
(* (the revision with pauseListening / resumeListening), driving the       *)
(* SpeechDetector, AudioRecorder and AudioPlayer of src/lib/audioUtils.ts  *)
(* and a request/response transport client.                                *)
(*                                                                         *)
(* One action is one browser task: an event handler together with the      *)
(* promise continuations (microtasks) it triggers, up to the next real     *)
(* suspension (getUserMedia, fetch, the recorder's stop event, the silence *)
(* timer, the end of a clip).  React re-renders between tasks, so a        *)
(* function created by a render reads the conversationActive of the state  *)
(* at the start of the task in which it was created; a continuation keeps  *)
(* that value (ca) for as long as it is pending.                           *)
(***************************************************************************)
EXTENDS Naturals, Sequences, FiniteSets, Bags

VARIABLES
    \* React state of ConversationProvider
    messages, isListening, isSpeaking, isProcessing, userSpeaking, error,
    conversationActive,
    \* SpeechDetector
    dStream, dAnalyser, dIsSpeaking, dTimer, dLoops, dLeaked, dInitPending,
    \* AudioRecorder
    rIsRecording, rStream, rMR, rStartPending, rLeaked, rStopQueued, rStopWaiters,
    \* AudioPlayer
    pPlaying, pCallback,
    \* exchanges in flight
    cBusy, audioFetch, chatPending, ttsPending,
    \* the clock Date.now() reads, in milliseconds
    now,
    \* what became of the latest call of SpeechDetector.init (its callbacks
    \* are the ones the detector holds), and whether stop() has returned with
    \* no init called since
    dNewest, dStopped,
    \* AudioRecorder.audioChunks, each chunk named after the MediaRecorder it
    \* came from, and whether a MediaRecorder the recorder no longer holds is
    \* still recording
    rChunks, rOrphan,
    \* what a client driving the AudioPlayer on its own has seen of it
    pObs,
    \* React state of the streaming ConversationProvider
    isConnecting, isConnected,
    \* ConversationSocketClient: isConnected, socket (an index into socks, 0
    \* for null) and the FileReader reads of sendAudioChunk still pending
    cIsConnected, cSocket, cReads,
    \* the sockets io() has created, the audioChunk handlers running on the
    \* server, the events on their way to the client, and the events the
    \* streaming coordinator's handlers have been called with
    socks, srv, wire, seen

vars == <<messages, isListening, isSpeaking, isProcessing, userSpeaking, error,
          conversationActive,
          dStream, dAnalyser, dIsSpeaking, dTimer, dLoops, dLeaked, dInitPending,
          rIsRecording, rStream, rMR, rStartPending, rLeaked, rStopQueued, rStopWaiters,
          pPlaying, pCallback,
          cBusy, audioFetch, chatPending, ttsPending, now,
          dNewest, dStopped, rChunks, rOrphan, pObs,
          isConnecting, isConnected, cIsConnected, cSocket, cReads,
          socks, srv, wire, seen>>

----------------------------------------------------------------------------
\* Bounds of the model

\* longest message list explored
MaxMsgs == 2
\* most detector initialisations pending at once, most detection loops, and
\* most typed exchanges in flight
MaxPending == 2
\* most recorder acquisitions pending at once, most speech-end callbacks
\* awaiting one clip, and most reply clips being fetched
MaxCapture == 1
\* last clock reading explored
MaxClock == 1
\* longest message list explored when messages are only typed
MaxTyped == 4
\* most speech-start callbacks followed on a detector driven on its own
MaxStarts == 3
\* most chunks followed on a recorder driven on its own
MaxChunks == 2
\* most successful starts of one clip with a callback followed on a player
\* driven on its own
MaxPlays == 2
\* most sockets created, and most utterances sent, in streaming mode
MaxSockets == 1
MaxTurns == 1
\* longest message list explored in streaming mode
MaxStreamMsgs == 2
\* most sockets created when the socket client is followed without the
\* audio components
MaxClientSockets == 2

----------------------------------------------------------------------------
\* Texts: strings as sequences of characters.  The texts typed and
\* transcribed are drawn from the empty text, a whitespace-only text and a
\* non-blank text with a blank before it.

Texts == {<<>>, <<" ">>, <<" ", "h", "i">>}

RECURSIVE TrimStart(_)
TrimStart(t) == IF t # <<>> /\ Head(t) = " " THEN TrimStart(Tail(t)) ELSE t

RECURSIVE TrimEnd(_)
TrimEnd(t) ==
    IF t # <<>> /\ t[Len(t)] = " " THEN TrimEnd(SubSeq(t, 1, Len(t) - 1)) ELSE t

\* String.prototype.trim
Trim(t) == TrimEnd(TrimStart(t))

\* !text.trim()  /  !userText || userText.trim() === ''
IsBlank(t) == Trim(t) = <<>>

\* the reply the generation backend gives to a text
ReplyTo(t) == <<"re:">> \o t

----------------------------------------------------------------------------
\* The state as one record, so that a handler is a function of the state

Cur ==
    [messages |-> messages, isListening |-> isListening, isSpeaking |-> isSpeaking,
     isProcessing |-> isProcessing, userSpeaking |-> userSpeaking, error |-> error,
     conversationActive |-> conversationActive,
     dStream |-> dStream, dAnalyser |-> dAnalyser, dIsSpeaking |-> dIsSpeaking,
     dTimer |-> dTimer, dLoops |-> dLoops, dLeaked |-> dLeaked,
     dInitPending |-> dInitPending,
     rIsRecording |-> rIsRecording, rStream |-> rStream, rMR |-> rMR,
     rStartPending |-> rStartPending, rLeaked |-> rLeaked,
     rStopQueued |-> rStopQueued, rStopWaiters |-> rStopWaiters,
     pPlaying |-> pPlaying, pCallback |-> pCallback,
     cBusy |-> cBusy, audioFetch |-> audioFetch, chatPending |-> chatPending,
     ttsPending |-> ttsPending, now |-> now,
     dNewest |-> dNewest, dStopped |-> dStopped,
     rChunks |-> rChunks, rOrphan |-> rOrphan, pObs |-> pObs,
     isConnecting |-> isConnecting, isConnected |-> isConnected,
     cIsConnected |-> cIsConnected, cSocket |-> cSocket, cReads |-> cReads,
     socks |-> socks, srv |-> srv, wire |-> wire, seen |-> seen]

Set(s) ==
    /\ messages' = s.messages
    /\ isListening' = s.isListening
    /\ isSpeaking' = s.isSpeaking
    /\ isProcessing' = s.isProcessing
    /\ userSpeaking' = s.userSpeaking
    /\ error' = s.error
    /\ conversationActive' = s.conversationActive
    /\ dStream' = s.dStream
    /\ dAnalyser' = s.dAnalyser
    /\ dIsSpeaking' = s.dIsSpeaking
    /\ dTimer' = s.dTimer
    /\ dLoops' = s.dLoops
    /\ dLeaked' = s.dLeaked
    /\ dInitPending' = s.dInitPending
    /\ rIsRecording' = s.rIsRecording
    /\ rStream' = s.rStream
    /\ rMR' = s.rMR
    /\ rStartPending' = s.rStartPending
    /\ rLeaked' = s.rLeaked
    /\ rStopQueued' = s.rStopQueued
    /\ rStopWaiters' = s.rStopWaiters
    /\ pPlaying' = s.pPlaying
    /\ pCallback' = s.pCallback
    /\ cBusy' = s.cBusy
    /\ audioFetch' = s.audioFetch
    /\ chatPending' = s.chatPending
    /\ ttsPending' = s.ttsPending
    /\ now' = s.now
    /\ dNewest' = s.dNewest
    /\ dStopped' = s.dStopped
    /\ rChunks' = s.rChunks
    /\ rOrphan' = s.rOrphan
    /\ pObs' = s.pObs
    /\ isConnecting' = s.isConnecting
    /\ isConnected' = s.isConnected
    /\ cIsConnected' = s.cIsConnected
    /\ cSocket' = s.cSocket
    /\ cReads' = s.cReads
    /\ socks' = s.socks
    /\ srv' = s.srv
    /\ wire' = s.wire
    /\ seen' = s.seen

\* the part of the state space the bounds keep
WithinBounds(s) ==
    /\ Len(s.messages) <= MaxMsgs
    /\ s.dInitPending <= MaxPending
    /\ s.rStartPending <= MaxCapture
    /\ s.rStopWaiters <= MaxCapture
    /\ s.dLoops <= MaxPending
    /\ BagCardinality(s.audioFetch) <= MaxCapture
    /\ BagCardinality(s.chatPending) + BagCardinality(s.ttsPending) <= MaxPending

Step(s) == WithinBounds(s) /\ Set(s)

----------------------------------------------------------------------------
\* AudioRecorder (src/lib/audioUtils.ts)

\* startRecording up to its await: a recorder already recording returns true
\* at once, otherwise a getUserMedia request is pending
StartRecording(s) ==
    IF s.rIsRecording THEN s ELSE [s EXCEPT !.rStartPending = @ + 1]

\* startRecording after getUserMedia: a new stream, an empty chunk list and a
\* new MediaRecorder replace the fields, whatever they held
RecorderStarted(s, granted) ==
    IF granted
    THEN [s EXCEPT !.rStartPending = @ - 1,
                   !.rLeaked = @ \/ s.rStream,
                   !.rOrphan = @ \/ s.rMR = "recording",
                   !.rChunks = <<>>,
                   !.rStream = TRUE,
                   !.rMR = "recording",
                   !.rIsRecording = TRUE]
    ELSE [s EXCEPT !.rStartPending = @ - 1]

\* stopRecording resolves null at once
StopResolvesNull(s) == s.rMR = "none" \/ ~s.rIsRecording

\* mutant of StopRecording: every caller's listener continues with the clip
StopRecording_EveryCallerWaits(s, waiter) ==
    IF StopResolvesNull(s) THEN s
    ELSE [s EXCEPT !.rStopWaiters = @ + 1,
                   !.rStopQueued = TRUE,
                   !.rMR = "inactive"]

\* stopRecording otherwise: a 'stop' listener is added and mediaRecorder.stop()
\* queues the stop event (nothing new is queued for an inactive recorder);
\* waiter says whether a continuation awaits the clip
StopRecording(s, waiter) ==
    IF StopResolvesNull(s) THEN s
    ELSE [s EXCEPT !.rStopWaiters = IF waiter THEN @ + 1 ELSE @,
                   !.rStopQueued = TRUE,
                   !.rMR = "inactive"]

\* the 'stop' listeners: stopMediaTracks, isRecording = false
RecorderStopped(s) ==
    [s EXCEPT !.rStream = FALSE, !.rIsRecording = FALSE,
              !.rStopQueued = FALSE, !.rStopWaiters = 0, !.rMR = "inactive"]

isCurrentlyRecording(s) == s.rIsRecording

\* the MediaRecorders that deliver chunks: the one the recorder holds while
\* it records, and one it no longer holds
ChunkSources(s) ==
    (IF s.rMR = "recording" THEN {"current"} ELSE {})
      \cup (IF s.rOrphan THEN {"orphan"} ELSE {})

\* the 'dataavailable' listener
OnDataAvailable(s, src) == [s EXCEPT !.rChunks = Append(@, src)]

\* the clip the 'stop' listener builds
ClipOf(s) == s.rChunks

----------------------------------------------------------------------------
\* AudioPlayer (src/lib/audioUtils.ts)

\* the clips a client of the player plays; the callback it passes with a
\* clip carries the clip's name and counts its own calls in pObs.calls
Clips == {"A", "B"}
ClipCallback(clip) == [path |-> clip, ca |-> FALSE]

\* onEndCallback = null
NoCallback == [path |-> "none", ca |-> FALSE]

\* mutant of PlayAudio: a callback already stored is kept
PlayAudio_KeepsCallback(s, cb, playOk) ==
    [s EXCEPT !.pCallback = IF @ = NoCallback THEN cb ELSE @, !.pPlaying = playOk]

\* playAudio: the new source replaces the clip being played, the callback is
\* replaced, and play() either starts the clip or is rejected
PlayAudio(s, cb, playOk) ==
    [s EXCEPT !.pCallback = cb, !.pPlaying = playOk]

\* mutant of PlayerStop: the stopped clip's callback is called
PlayerStop_CallsBack(s) ==
    IF s.pCallback.path \in Clips
    THEN [s EXCEPT !.pPlaying = FALSE, !.pObs.calls[s.pCallback.path] = @ + 1]
    ELSE [s EXCEPT !.pPlaying = FALSE]

\* mutant of PlayerStop: the clip is rewound and keeps playing
PlayerStop_NoPause(s) == s

\* stop: pause and rewind; the callback is kept
PlayerStop(s) == [s EXCEPT !.pPlaying = FALSE]

----------------------------------------------------------------------------
\* SpeechDetector (src/lib/audioUtils.ts)

\* mutant of DetectorStop: the silence timer is not cleared
DetectorStop_KeepsTimer(s) ==
    [s EXCEPT !.dStream = FALSE, !.dAnalyser = FALSE, !.dIsSpeaking = FALSE]

\* stop
DetectorStop(s) ==
    [s EXCEPT !.dTimer = FALSE, !.dStream = FALSE, !.dAnalyser = FALSE,
              !.dIsSpeaking = FALSE]

\* init up to its await: the callbacks are stored, getUserMedia is pending
DetectorInit(s) == [s EXCEPT !.dInitPending = @ + 1]

\* the speech-start callback the coordinator passes to init
OnSpeechStart(s) == StartRecording([s EXCEPT !.userSpeaking = TRUE])

\* mutant of CheckAudioLevel: isSpeaking is not set when speech starts
CheckAudioLevel_NoLatch(s, above) ==
    IF ~s.dAnalyser THEN [s EXCEPT !.dLoops = 0]
    ELSE IF above
    THEN LET s1 == IF ~s.dIsSpeaking THEN OnSpeechStart(s) ELSE s
         IN  [s1 EXCEPT !.dTimer = FALSE]
    ELSE IF s.dIsSpeaking /\ ~s.dTimer
    THEN [s EXCEPT !.dTimer = TRUE]
    ELSE s

\* mutant of CheckAudioLevel: a frame above the threshold leaves the silence
\* timer running
CheckAudioLevel_KeepsTimer(s, above) ==
    IF ~s.dAnalyser THEN [s EXCEPT !.dLoops = 0]
    ELSE IF above
    THEN IF ~s.dIsSpeaking
         THEN OnSpeechStart([s EXCEPT !.dIsSpeaking = TRUE])
         ELSE s
    ELSE IF s.dIsSpeaking /\ ~s.dTimer
    THEN [s EXCEPT !.dTimer = TRUE]
    ELSE s

\* one pass of checkAudioLevel over a frame whose average is above the
\* threshold or not
CheckAudioLevel(s, above) ==
    IF ~s.dAnalyser THEN [s EXCEPT !.dLoops = 0]
    ELSE IF above
    THEN LET s1 == IF ~s.dIsSpeaking
                   THEN OnSpeechStart([s EXCEPT !.dIsSpeaking = TRUE])
                   ELSE s
         IN  [s1 EXCEPT !.dTimer = FALSE]
    ELSE IF s.dIsSpeaking /\ ~s.dTimer
    THEN [s EXCEPT !.dTimer = TRUE]
    ELSE s

InitOutcomes == {"granted", "denied", "contextFailed"}

\* init after getUserMedia; "contextFailed": the stream was acquired and
\* new AudioContext() threw.  The first checkAudioLevel runs inside init.
DetectorInitResolved(s, outcome, above) ==
    LET s0 == [s EXCEPT !.dInitPending = @ - 1]
        got == [s0 EXCEPT !.dLeaked = @ \/ s0.dStream,
                          !.dStream = TRUE]
    IN  CASE outcome = "granted" ->
               CheckAudioLevel([got EXCEPT !.dAnalyser = TRUE, !.dLoops = @ + 1], above)
          [] outcome = "contextFailed" -> got
          [] OTHER -> s0

----------------------------------------------------------------------------
\* ConversationProvider (src/lib/ConversationContext.tsx)

User == "user"
Assistant == "assistant"

\* mutant of addMessage: the new message is put in front
addMessage_Prepends(s, role, content) ==
    [s EXCEPT !.messages = <<[id |-> s.now, role |-> role, content |-> content]>> \o @]

\* id: Date.now().toString()
addMessage(s, role, content) ==
    [s EXCEPT !.messages = Append(@, [id |-> s.now, role |-> role, content |-> content])]

\* mutant of pauseListening: isListening is left as it was
pauseListening_KeepsIsListening(s) ==
    LET s1 == DetectorStop(s)
        s2 == IF isCurrentlyRecording(s1) THEN StopRecording(s1, FALSE) ELSE s1
    IN  [s2 EXCEPT !.userSpeaking = FALSE]

pauseListening(s) ==
    LET s1 == DetectorStop(s)
        s2 == IF isCurrentlyRecording(s1) THEN StopRecording(s1, FALSE) ELSE s1
    IN  [s2 EXCEPT !.userSpeaking = FALSE, !.isListening = FALSE]

\* the error surfaced when init returns false
FailedInit == "Failed to initialize speech detection"

\* resumeListening up to its await; ca is the conversationActive its closure holds
resumeListening(s, ca) == IF ~ca THEN s ELSE DetectorInit(s)

\* resumeListening after init
ResumeAfterInit(s, initialized) ==
    IF initialized THEN [s EXCEPT !.isListening = TRUE]
    ELSE [s EXCEPT !.error = "Failed to initialize speech detection"]

\* the transport client's send: rejected while an exchange is in flight
ClientAccepts(s) == ~s.cBusy

\* the speech-end callback after stopRecording gave a clip.  The callback was
\* created by a resumeListening that passed its guard: its closure holds
\* conversationActive = true.
SpeechEndWithClip(s) ==
    LET s1 == pauseListening(s)
        s2 == [s1 EXCEPT !.isProcessing = TRUE]
    IN  IF ClientAccepts(s2)
        THEN [s2 EXCEPT !.cBusy = TRUE]
        ELSE LET s3 == resumeListening([s2 EXCEPT !.error = "Failed to process audio"], TRUE)
             IN  [s3 EXCEPT !.isProcessing = FALSE]

\* the speech-end callback the coordinator passes to init, up to its await
OnSpeechEnd(s) ==
    LET s1 == [s EXCEPT !.userSpeaking = FALSE]
    IN  StopRecording(s1, TRUE)

\* the speech-end callback after sendAudioChunk resolved
AfterSend(s, success) ==
    LET s1 == IF success THEN s
              ELSE resumeListening([s EXCEPT !.error = "Failed to process audio"], TRUE)
    IN  [s1 EXCEPT !.isProcessing = FALSE]

\* client.onAudioResponse handler up to the fetch of the audio
OnAudioResponse(s, ca) ==
    LET s1 == pauseListening(s)
    IN  [s1 EXCEPT !.isSpeaking = TRUE,
                   !.audioFetch = @ (+) SetToBag({ca})]

\* client.onError handler
OnError(s, ca, msg) ==
    resumeListening([s EXCEPT !.error = msg, !.isProcessing = FALSE], ca)

\* the onEnd callback given to playAudio, by the voice and by the typed path
OnPlaybackEnd(s, ca) ==
    resumeListening([s EXCEPT !.isSpeaking = FALSE], ca)

\* onAudioResponse after the fetch
AfterAudioFetch(s, ca, fetched, playOk) ==
    LET s0 == [s EXCEPT !.audioFetch = @ (-) SetToBag({ca})]
    IN  IF fetched THEN PlayAudio(s0, [path |-> "voice", ca |-> ca], playOk)
        ELSE resumeListening([s0 EXCEPT !.isSpeaking = FALSE], ca)

startConversationOp(s) ==
    LET s1 == [s EXCEPT !.error = "none", !.conversationActive = TRUE]
    IN  resumeListening(s1, s.conversationActive)

\* mutant of stopConversationOp: the message list is cleared as well
stopConversationOp_ClearsMessages(s) ==
    LET s1 == DetectorStop(s)
        s2 == IF isCurrentlyRecording(s1) THEN StopRecording(s1, FALSE) ELSE s1
        s3 == PlayerStop(s2)
    IN  [s3 EXCEPT !.isListening = FALSE, !.isSpeaking = FALSE,
                   !.userSpeaking = FALSE, !.isProcessing = FALSE,
                   !.conversationActive = FALSE, !.messages = <<>>]

stopConversationOp(s) ==
    LET s1 == DetectorStop(s)
        s2 == IF isCurrentlyRecording(s1) THEN StopRecording(s1, FALSE) ELSE s1
        s3 == PlayerStop(s2)
    IN  [s3 EXCEPT !.isListening = FALSE, !.isSpeaking = FALSE,
                   !.userSpeaking = FALSE, !.isProcessing = FALSE,
                   !.conversationActive = FALSE]

\* the body of the chat request: messages.concat({...})
ChatBody(s, text) ==
    Append(s.messages, [id |-> s.now, role |-> User, content |-> text])

\* mutant of sendMessageOp: only the new message is sent
sendMessageOp_NoHistory(s, text) ==
    IF IsBlank(text) THEN s
    ELSE LET s1 == pauseListening(addMessage(s, User, text))
         IN  [s1 EXCEPT !.isProcessing = TRUE,
                        !.chatPending = @ (+) SetToBag({[ca |-> s.conversationActive,
                                                         text |-> text,
                                                         body |-> <<[id |-> s.now, role |-> User,
                                                                     content |-> text]>>]})]

\* sendMessage up to the chat request
sendMessageOp(s, text) ==
    IF IsBlank(text) THEN s
    ELSE LET s1 == pauseListening(addMessage(s, User, text))
         IN  [s1 EXCEPT !.isProcessing = TRUE,
                        !.chatPending = @ (+) SetToBag({[ca |-> s.conversationActive,
                                                         text |-> text,
                                                         body |-> ChatBody(s, text)]})]

ChatOutcomes == {"message", "noMessage", "failed"}

\* sendMessage after the chat request
AfterChat(s, req, outcome) ==
    LET s0 == [s EXCEPT !.chatPending = @ (-) SetToBag({req})]
    IN  CASE outcome = "message" ->
               LET s1 == addMessage([s0 EXCEPT !.isProcessing = FALSE],
                                    Assistant, ReplyTo(req.text))
               IN  [s1 EXCEPT !.ttsPending = @ (+) SetToBag({req.ca})]
          [] outcome = "noMessage" -> [s0 EXCEPT !.isProcessing = FALSE]
          [] OTHER ->
               resumeListening([s0 EXCEPT !.error = "Failed to send message",
                                          !.isProcessing = FALSE], req.ca)

\* sendMessage after the speech request
AfterTts(s, ca, fetched, playOk) ==
    LET s0 == [s EXCEPT !.ttsPending = @ (-) SetToBag({ca})]
    IN  IF fetched
        THEN PlayAudio([s0 EXCEPT !.isSpeaking = TRUE],
                       [path |-> "typed", ca |-> ca], playOk)
        ELSE resumeListening(s0, ca)

\* client.onTranscription and client.onTextResponse handlers
OnTranscription(s, text) == addMessage(s, User, text)
OnTextResponse(s, text) == addMessage(s, Assistant, text)

\* mutant of SilenceElapsed: isSpeaking is not reset
SilenceElapsed_StaysSpeaking(s) ==
    LET s1 == OnSpeechEnd(s)
    IN  [s1 EXCEPT !.dTimer = FALSE]

\* the silence timer's callback
SilenceElapsed(s) ==
    LET s1 == OnSpeechEnd([s EXCEPT !.dIsSpeaking = FALSE])
    IN  [s1 EXCEPT !.dTimer = FALSE]

\* the callback the streaming coordinator passes to playAudio
StreamCallback == [path |-> "stream", ca |-> FALSE]

\* this.onEndCallback(): a client's callback, or a coordinator's
InvokeOnEnd(s, cb) ==
    IF cb.path \in Clips
    THEN [s EXCEPT !.pObs.calls[cb.path] = @ + 1]
    ELSE IF cb = StreamCallback
    THEN [s EXCEPT !.isSpeaking = FALSE]
    ELSE OnPlaybackEnd(s, cb.ca)

\* mutant of Ended: the callback is called twice
Ended_CallsTwice(s) ==
    LET s1 == [s EXCEPT !.pPlaying = FALSE]
    IN  IF s.pCallback = NoCallback THEN s1
        ELSE InvokeOnEnd(InvokeOnEnd(s1, s.pCallback), s.pCallback)

\* the 'ended' listener the player's constructor installs
Ended(s) ==
    LET s1 == [s EXCEPT !.pPlaying = FALSE]
    IN  IF s.pCallback = NoCallback THEN s1 ELSE InvokeOnEnd(s1, s.pCallback)

\* every speech-end callback that awaits the clip continues, in turn
RECURSIVE SpeechEndsWithClip(_, _)
SpeechEndsWithClip(s, n) ==
    IF n = 0 THEN s ELSE SpeechEndsWithClip(SpeechEndWithClip(s), n - 1)

----------------------------------------------------------------------------
\* The request/response transport client and the route that serves it

\* what the backend makes of one utterance: a transcription (answered), or a
\* failure the client reports by an error event, by resolving false, or both
VoiceOutcomes ==
    {[kind |-> "answered", text |-> t] : t \in Texts}
      \cup {[kind |-> k, text |-> <<>>] : k \in {"errorEvent", "returnsFalse", "both"}}

\* one exchange completes.  The route answers a blank transcription with
\* "No speech detected"; the client then emits nothing and resolves true.
\* Otherwise the three events are emitted in order before send resolves.
ClientCompletes(s, outcome) ==
    LET ca == s.conversationActive
        s0 == [s EXCEPT !.cBusy = FALSE]
    IN  IF outcome.kind = "answered"
        THEN IF IsBlank(outcome.text) THEN AfterSend(s0, TRUE)
             ELSE AfterSend(
                    OnAudioResponse(
                      OnTextResponse(OnTranscription(s0, outcome.text),
                                     ReplyTo(outcome.text)), ca),
                    TRUE)
        ELSE LET s1 == IF outcome.kind \in {"errorEvent", "both"}
                       THEN OnError(s0, ca, "Failed to process audio")
                       ELSE s0
             IN  AfterSend(s1, outcome.kind = "errorEvent")

----------------------------------------------------------------------------
\* The state machine

Init ==
    /\ messages = <<>>
    /\ isListening = FALSE
    /\ isSpeaking = FALSE
    /\ isProcessing = FALSE
    /\ userSpeaking = FALSE
    /\ error = "none"
    /\ conversationActive = FALSE
    /\ dStream = FALSE
    /\ dAnalyser = FALSE
    /\ dIsSpeaking = FALSE
    /\ dTimer = FALSE
    /\ dLoops = 0
    /\ dLeaked = FALSE
    /\ dInitPending = 0
    /\ rIsRecording = FALSE
    /\ rStream = FALSE
    /\ rMR = "none"
    /\ rStartPending = 0
    /\ rLeaked = FALSE
    /\ rStopQueued = FALSE
    /\ rStopWaiters = 0
    /\ pPlaying = FALSE
    /\ pCallback = NoCallback
    /\ cBusy = FALSE
    /\ audioFetch = EmptyBag
    /\ chatPending = EmptyBag
    /\ ttsPending = EmptyBag
    /\ now = 0
    /\ dNewest = "none"
    /\ dStopped = FALSE
    /\ rChunks = <<>>
    /\ rOrphan = FALSE
    /\ pObs = [src |-> "none", withCb |-> FALSE, stopped |-> FALSE,
               started |-> [c \in Clips |-> 0],
               ends |-> [c \in Clips |-> 0],
               calls |-> [c \in Clips |-> 0]]
    /\ isConnecting = FALSE
    /\ isConnected = FALSE
    /\ cIsConnected = FALSE
    /\ cSocket = 0
    /\ cReads = 0
    /\ socks = <<>>
    /\ srv = <<>>
    /\ wire = <<>>
    /\ seen = <<>>

StartConversation == Step(startConversationOp(Cur))

StopConversation == Step(stopConversationOp(Cur))

SendMessage == \E text \in Texts : Step(sendMessageOp(Cur, text))

DetectorInitDone ==
    /\ dInitPending > 0
    /\ \E outcome \in InitOutcomes, above \in BOOLEAN :
         Step(ResumeAfterInit(DetectorInitResolved(Cur, outcome, above),
                              outcome = "granted"))

Frame ==
    /\ dLoops > 0
    /\ \E above \in BOOLEAN : Step(CheckAudioLevel(Cur, above))

SilenceTimer ==
    /\ dTimer
    /\ Step(SilenceElapsed(Cur))

RecorderStartDone ==
    /\ rStartPending > 0
    /\ \E granted \in BOOLEAN : Step(RecorderStarted(Cur, granted))

RecorderStopEvent ==
    /\ rStopQueued
    /\ Step(SpeechEndsWithClip(RecorderStopped(Cur), rStopWaiters))

VoiceExchangeDone ==
    /\ cBusy
    /\ \E outcome \in VoiceOutcomes : Step(ClientCompletes(Cur, outcome))

AudioFetchDone ==
    \E ca \in BagToSet(audioFetch), fetched \in BOOLEAN, playOk \in BOOLEAN :
        Step(AfterAudioFetch(Cur, ca, fetched, playOk))

PlaybackEnded ==
    /\ pPlaying
    /\ Step(Ended(Cur))

ChatDone ==
    \E req \in BagToSet(chatPending), outcome \in ChatOutcomes :
        Step(AfterChat(Cur, req, outcome))

TtsDone ==
    \E ca \in BagToSet(ttsPending), fetched \in BOOLEAN, playOk \in BOOLEAN :
        Step(AfterTts(Cur, ca, fetched, playOk))

\* a millisecond passes
Tick ==
    /\ now < MaxClock
    /\ Step([Cur EXCEPT !.now = @ + 1])

Next ==
    \/ StartConversation
    \/ StopConversation
    \/ SendMessage
    \/ DetectorInitDone
    \/ Frame
    \/ SilenceTimer
    \/ RecorderStartDone
    \/ RecorderStopEvent
    \/ VoiceExchangeDone
    \/ AudioFetchDone
    \/ PlaybackEnded
    \/ ChatDone
    \/ TtsDone
    \/ Tick

Spec == Init /\ [][Next]_vars

----------------------------------------------------------------------------
\* Typed messages only: sendMessage needs no started conversation, and with
\* the microphone never opened the list can be followed over two turns whose
\* texts differ.

TypedTexts == {<<"a">>, <<"b">>}

TypedStep(s) ==
    /\ Len(s.messages) <= MaxTyped
    /\ BagCardinality(s.chatPending) + BagCardinality(s.ttsPending) <= MaxPending
    /\ Set(s)

TypedSendMessage == \E text \in TypedTexts : TypedStep(sendMessageOp(Cur, text))

TypedChatDone ==
    \E req \in BagToSet(chatPending), outcome \in ChatOutcomes :
        TypedStep(AfterChat(Cur, req, outcome))

TypedTtsDone ==
    \E ca \in BagToSet(ttsPending), fetched \in BOOLEAN, playOk \in BOOLEAN :
        TypedStep(AfterTts(Cur, ca, fetched, playOk))

TypedPlaybackEnded ==
    /\ pPlaying
    /\ TypedStep(Ended(Cur))

TypedTick ==
    /\ now < MaxClock
    /\ TypedStep([Cur EXCEPT !.now = @ + 1])

TypedNext ==
    \/ TypedSendMessage
    \/ TypedChatDone
    \/ TypedTtsDone
    \/ TypedPlaybackEnded
    \/ TypedTick

TypedSpec == Init /\ [][TypedNext]_vars

----------------------------------------------------------------------------
\* The message list and the chat requests on their own: voice turns append a
\* transcription and its reply, typed messages are sent and answered.

VoiceText == <<" ", "h", "i">>

HistStep(s) ==
    /\ Len(s.messages) <= MaxTyped
    /\ BagCardinality(s.chatPending) + BagCardinality(s.ttsPending) <= MaxPending
    /\ Set(s)

\* the handlers of the transcription and the textResponse of one voice turn
HistVoiceTurn ==
    HistStep(OnTextResponse(OnTranscription(Cur, VoiceText), ReplyTo(VoiceText)))

HistSendMessage == \E text \in TypedTexts : HistStep(sendMessageOp(Cur, text))

HistChatDone ==
    \E req \in BagToSet(chatPending), outcome \in ChatOutcomes :
        HistStep(AfterChat(Cur, req, outcome))

HistTtsDone ==
    \E ca \in BagToSet(ttsPending), fetched \in BOOLEAN, playOk \in BOOLEAN :
        HistStep(AfterTts(Cur, ca, fetched, playOk))

HistPlaybackEnded ==
    /\ pPlaying
    /\ HistStep(Ended(Cur))

HistNext ==
    \/ HistVoiceTurn
    \/ HistSendMessage
    \/ HistChatDone
    \/ HistTtsDone
    \/ HistPlaybackEnded

HistorySpec == Init /\ [][HistNext]_vars

----------------------------------------------------------------------------
\* The SpeechDetector driven on its own: init and stop are called in any
\* order, getUserMedia resolves either way, and frames of either energy are
\* fed to it.  The callbacks are the coordinator's; no recorder is ever
\* granted here, so every call of the speech-start callback leaves one more
\* startRecording pending, and the speech-end callback resets userSpeaking.

DetStep(s) ==
    /\ s.dInitPending <= MaxPending
    /\ s.dLoops <= MaxPending
    /\ s.rStartPending <= MaxStarts
    /\ Set(s)

\* init(onSpeechStart, onSpeechEnd) is called
DetInit ==
    DetStep([DetectorInit(Cur) EXCEPT !.dNewest = "pending", !.dStopped = FALSE])

\* a pending init continues; newest: it is the latest call
DetInitDone ==
    /\ dInitPending > 0
    /\ \E outcome \in InitOutcomes, above \in BOOLEAN, newest \in BOOLEAN :
         /\ newest => dNewest = "pending"
         /\ ~newest => dInitPending > (IF dNewest = "pending" THEN 1 ELSE 0)
         /\ DetStep([DetectorInitResolved(Cur, outcome, above)
                       EXCEPT !.dNewest = IF newest THEN outcome ELSE @])

\* an animation frame above the threshold, or at or below it
DetFrameAbove ==
    /\ dLoops > 0
    /\ DetStep(CheckAudioLevel(Cur, TRUE))

DetFrameBelow ==
    /\ dLoops > 0
    /\ DetStep(CheckAudioLevel(Cur, FALSE))

\* the silence timer expires
DetTimer ==
    /\ dTimer
    /\ DetStep(SilenceElapsed(Cur))

\* stop() is called
DetStop == DetStep([DetectorStop(Cur) EXCEPT !.dStopped = TRUE])

DetNext ==
    \/ DetInit
    \/ DetInitDone
    \/ DetFrameAbove
    \/ DetFrameBelow
    \/ DetTimer
    \/ DetStop

DetectorSpec == Init /\ [][DetNext]_vars

\* the step calls the speech-start callback / a callback
SpeechStartCalled == rStartPending' # rStartPending
CallbackCalled == rStartPending' # rStartPending \/ userSpeaking' # userSpeaking

\* the first frame an init that acquired the microphone reads is above the
\* threshold
DetInitAbove ==
    /\ dInitPending > 0
    /\ \E newest \in BOOLEAN :
         DetStep([DetectorInitResolved(Cur, "granted", TRUE)
                    EXCEPT !.dNewest = IF newest THEN "granted" ELSE @])

----------------------------------------------------------------------------
\* The AudioRecorder driven on its own: startRecording and stopRecording are
\* called in any order, getUserMedia resolves either way, chunks arrive and
\* the MediaRecorder's stop event fires.

RecStep(s) ==
    /\ s.rStartPending <= MaxPending
    /\ s.rStopWaiters <= MaxPending
    /\ Len(s.rChunks) <= MaxChunks
    /\ Set(s)

RecStart == RecStep(StartRecording(Cur))

RecStartDone ==
    /\ rStartPending > 0
    /\ \E granted \in BOOLEAN : RecStep(RecorderStarted(Cur, granted))

RecData == \E src \in ChunkSources(Cur) : RecStep(OnDataAvailable(Cur, src))

RecStop == RecStep(StopRecording(Cur, TRUE))

RecStopEvent ==
    /\ rStopQueued
    /\ RecStep(RecorderStopped(Cur))

RecNext ==
    \/ RecStart
    \/ RecStartDone
    \/ RecData
    \/ RecStop
    \/ RecStopEvent

RecorderSpec == Init /\ [][RecNext]_vars

----------------------------------------------------------------------------
\* The AudioPlayer driven on its own: clips are played with or without a
\* callback, play() starts or is rejected, a playing clip reaches its end,
\* and stop is called, in any order.  pObs notes which clip the element was
\* given last (src), whether a callback came with it, whether stop was called
\* since, and per clip, of the plays that came with a callback, the successful
\* starts and the natural ends; the callbacks count their calls themselves.

PlStep(s) ==
    /\ \A c \in Clips : s.pObs.started[c] <= MaxPlays
    /\ Set(s)

PlPlay ==
    \E clip \in Clips, withCb \in BOOLEAN, playOk \in BOOLEAN :
        PlStep([PlayAudio(Cur, IF withCb THEN ClipCallback(clip) ELSE NoCallback, playOk)
                  EXCEPT !.pObs.src = clip, !.pObs.withCb = withCb,
                         !.pObs.stopped = FALSE,
                         !.pObs.started[clip] = IF playOk /\ withCb THEN @ + 1 ELSE @])

PlEnded ==
    /\ pPlaying
    /\ PlStep([Ended(Cur)
                 EXCEPT !.pObs.ends[pObs.src] = IF pObs.withCb THEN @ + 1 ELSE @])

PlStop == PlStep([PlayerStop(Cur) EXCEPT !.pObs.stopped = TRUE])

PlNext ==
    \/ PlPlay
    \/ PlEnded
    \/ PlStop

PlayerSpec == Init /\ [][PlNext]_vars

----------------------------------------------------------------------------
\* Streaming mode: the ConversationProvider of the streaming revision, the
\* ConversationSocketClient (src/lib/socketClient.ts) and the socket server
\* (src/app/api/socket/route.ts).
\*
\* A socket is [st, tries, lost, waiter, buf]: st is "connecting" (first
\* attempt), "open", "retrying" (the manager is reconnecting), "failed" (the
\* manager gave up) or "closed" (disconnect() was called); tries counts the
\* reconnection attempts that failed; lost says the socket had been open and
\* lost its connection; waiter says the promise of connect() is unresolved;
\* buf counts the audioChunk packets emitted while the socket was not open,
\* which socket.io sends when it connects.
\* A handler on the server is [sock, stage, text, live]: live says the
\* connection it emits to still exists.

\* the reconnectionAttempts option passed to io()
reconnectionAttempts == 5

NewSocket == [st |-> "connecting", tries |-> 0, lost |-> FALSE,
              waiter |-> TRUE, buf |-> 0]

NewHandler(i) == [sock |-> i, stage |-> "received", text |-> <<>>, live |-> TRUE]

FailedConnect == "Failed to connect to the conversation server"
FailedAudio == "Failed to process audio"

\* startConversation after init resolved
StreamAfterInit(s, initialized) ==
    IF initialized
    THEN [s EXCEPT !.isListening = TRUE]
    ELSE [s EXCEPT !.error = FailedInit, !.isConnecting = FALSE]

\* startConversation after connect resolved, up to the await in init
StreamAfterConnect(s, connected) ==
    IF connected
    THEN DetectorInit(s)
    ELSE [s EXCEPT !.error = FailedConnect, !.isConnecting = FALSE]

\* ConversationSocketClient.connect: resolves true at once when connected,
\* otherwise a new socket replaces this.socket
SocketConnect(s) ==
    IF s.cIsConnected /\ s.cSocket # 0
    THEN StreamAfterConnect(s, TRUE)
    ELSE [s EXCEPT !.socks = Append(@, NewSocket), !.cSocket = Len(s.socks) + 1]

\* startConversation up to its first suspension
StreamStartConversation(s) ==
    SocketConnect([s EXCEPT !.error = "none", !.isConnecting = TRUE])

\* the audioChunk packets a socket sends start a handler each on the server
RECURSIVE Received(_, _, _)
Received(handlers, i, n) ==
    IF n = 0 THEN handlers ELSE Received(Append(handlers, NewHandler(i)), i, n - 1)

\* the 'connect' listener of socket i, with the coordinator's onConnect
OnSocketConnect(s, i) ==
    LET s1 == [s EXCEPT !.cIsConnected = TRUE,
                        !.isConnected = TRUE, !.isConnecting = FALSE,
                        !.socks[i] = [@ EXCEPT !.st = "open", !.tries = 0,
                                               !.waiter = FALSE, !.buf = 0],
                        !.srv = Received(@, i, s.socks[i].buf)]
    IN  IF s.socks[i].waiter THEN StreamAfterConnect(s1, TRUE) ELSE s1

\* the connection of socket i is gone: the handlers running for it emit to
\* nobody and what was on its way is lost
ConnectionGone(s, i) ==
    [s EXCEPT !.srv = [t \in DOMAIN @ |->
                          IF @[t].sock = i THEN [@[t] EXCEPT !.live = FALSE] ELSE @[t]],
              !.wire = SelectSeq(@, LAMBDA m : m.sock # i)]

\* the 'disconnect' listener of socket i, with the coordinator's onDisconnect;
\* the manager then starts reconnecting
OnSocketDisconnect(s, i) ==
    LET s1 == [s EXCEPT !.cIsConnected = FALSE, !.isConnected = FALSE,
                        !.socks[i] = [@ EXCEPT !.st = "retrying", !.tries = 0,
                                               !.lost = TRUE]]
    IN  ConnectionGone(s1, i)

\* the 'connect_error' listener of socket i: the first attempt failed, or a
\* reconnection attempt did; after reconnectionAttempts of those the manager
\* gives up
OnConnectError(s, i) ==
    LET k  == s.socks[i]
        k1 == IF k.st = "connecting"
              THEN [k EXCEPT !.st = "retrying", !.waiter = FALSE]
              ELSE IF k.tries + 1 >= reconnectionAttempts
              THEN [k EXCEPT !.st = "failed", !.tries = @ + 1, !.waiter = FALSE]
              ELSE [k EXCEPT !.tries = @ + 1, !.waiter = FALSE]
        s1 == [s EXCEPT !.socks[i] = k1]
    IN  IF k.waiter THEN StreamAfterConnect(s1, FALSE) ELSE s1

\* ConversationSocketClient.disconnect; an open socket fires 'disconnect'
ClientDisconnect(s) ==
    IF s.cSocket = 0 THEN s
    ELSE LET i  == s.cSocket
             s1 == IF s.socks[i].st = "open"
                   THEN [s EXCEPT !.cIsConnected = FALSE, !.isConnected = FALSE]
                   ELSE s
             s2 == ConnectionGone([s1 EXCEPT !.socks[i].st = "closed"], i)
         IN  [s2 EXCEPT !.cSocket = 0, !.cIsConnected = FALSE]

\* stopConversation
StreamStopConversation(s) ==
    LET s1 == DetectorStop(s)
        s2 == IF isCurrentlyRecording(s1) THEN StopRecording(s1, FALSE) ELSE s1
        s3 == PlayerStop(s2)
        s4 == ClientDisconnect(s3)
    IN  [s4 EXCEPT !.isListening = FALSE, !.isSpeaking = FALSE,
                   !.userSpeaking = FALSE, !.isConnected = FALSE]

\* what sendAudioChunk returns
SendAudioChunkOk(s) == s.cSocket # 0 /\ s.cIsConnected

\* ConversationSocketClient.sendAudioChunk up to the FileReader's read
SendAudioChunk(s) ==
    IF SendAudioChunkOk(s) THEN [s EXCEPT !.cReads = @ + 1] ELSE s

\* the speech-end callback after stopRecording resolved with a clip: the clip
\* is sent, the value sendAudioChunk returns is dropped
StreamSpeechEndWithClip(s) == SendAudioChunk(s)

RECURSIVE StreamSpeechEndsWithClip(_, _)
StreamSpeechEndsWithClip(s, n) ==
    IF n = 0 THEN s
    ELSE StreamSpeechEndsWithClip(StreamSpeechEndWithClip(s), n - 1)

\* reader.onloadend: this.socket?.emit('audioChunk', ...)
ChunkLoaded(s) ==
    LET s1 == [s EXCEPT !.cReads = @ - 1]
        i  == s.cSocket
    IN  IF i = 0 THEN s1
        ELSE IF s.socks[i].st = "open"
        THEN [s1 EXCEPT !.srv = Append(@, NewHandler(i))]
        ELSE [s1 EXCEPT !.socks[i].buf = @ + 1]

\* socket.emit on the server, for handler t
Emit(s, t, ev, text) ==
    IF s.srv[t].live
    THEN [s EXCEPT !.wire = Append(@, [sock |-> s.srv[t].sock, turn |-> t,
                                       ev |-> ev, text |-> text])]
    ELSE s

\* the audioChunk handler up to the chat request: the transcription request
\* throws, or returns a blank text, or a text that is emitted
ServerTranscribed(s, t, ok, text) ==
    IF ~ok
    THEN Emit([s EXCEPT !.srv[t].stage = "done"], t, "error", <<>>)
    ELSE IF IsBlank(text)
    THEN [s EXCEPT !.srv[t].stage = "done"]
    ELSE Emit([s EXCEPT !.srv[t].stage = "transcribed", !.srv[t].text = text],
              t, "transcription", text)

\* the rest of the audioChunk handler: audioResponse is emitted, then
\* textResponse; or a request throws
ServerReplied(s, t, ok) ==
    LET s1 == [s EXCEPT !.srv[t].stage = "done"]
    IN  IF ok
        THEN Emit(Emit(s1, t, "audioResponse", <<>>),
                  t, "textResponse", ReplyTo(s.srv[t].text))
        ELSE Emit(s1, t, "error", <<>>)

\* the coordinator's onAudioResponse
StreamOnAudioResponse(s, playOk) ==
    PlayAudio([s EXCEPT !.isSpeaking = TRUE], StreamCallback, playOk)

\* the coordinator's onError
StreamOnError(s, msg) == [s EXCEPT !.error = msg]

\* the listener of the event m, with the coordinator's handler
StreamHandle(s, m, playOk) ==
    LET s1 == [s EXCEPT !.seen = Append(@, [turn |-> m.turn, ev |-> m.ev])]
    IN  CASE m.ev = "transcription" -> addMessage(s1, User, m.text)
          [] m.ev = "textResponse" -> addMessage(s1, Assistant, m.text)
          [] m.ev = "audioResponse" -> StreamOnAudioResponse(s1, playOk)
          [] OTHER -> StreamOnError(s1, FailedAudio)

\* the position in the wire of the next event of socket i, 0 if none
NextOf(w, i) ==
    IF \E n \in DOMAIN w : w[n].sock = i
    THEN CHOOSE n \in DOMAIN w :
            w[n].sock = i /\ \A q \in 1..(n - 1) : w[q].sock # i
    ELSE 0

\* the wire without its n-th event
Without(w, n) == SubSeq(w, 1, n - 1) \o SubSeq(w, n + 1, Len(w))

StreamStep(s) ==
    /\ Len(s.messages) <= MaxStreamMsgs
    /\ Len(s.socks) <= MaxSockets
    /\ Len(s.srv) + s.cReads <= MaxTurns
    /\ \A i \in DOMAIN s.socks : Len(s.srv) + s.cReads + s.socks[i].buf <= MaxTurns
    /\ s.dInitPending <= MaxCapture
    /\ s.dLoops <= MaxPending
    /\ s.rStartPending <= MaxCapture
    /\ s.rStopWaiters <= MaxCapture
    /\ Set(s)

StrStart == StreamStep(StreamStartConversation(Cur))

StrStop == StreamStep(StreamStopConversation(Cur))

StrConnect ==
    \E i \in DOMAIN socks :
        /\ socks[i].st \in {"connecting", "retrying"}
        /\ StreamStep(OnSocketConnect(Cur, i))

StrConnectError ==
    \E i \in DOMAIN socks :
        /\ socks[i].st \in {"connecting", "retrying"}
        /\ StreamStep(OnConnectError(Cur, i))

StrDrop ==
    \E i \in DOMAIN socks :
        /\ socks[i].st = "open"
        /\ StreamStep(OnSocketDisconnect(Cur, i))

StrInitDone ==
    /\ dInitPending > 0
    /\ \E outcome \in InitOutcomes, above \in BOOLEAN :
         StreamStep(StreamAfterInit(DetectorInitResolved(Cur, outcome, above),
                                    outcome = "granted"))

StrFrame ==
    /\ dLoops > 0
    /\ \E above \in BOOLEAN : StreamStep(CheckAudioLevel(Cur, above))

StrSilenceTimer ==
    /\ dTimer
    /\ StreamStep(SilenceElapsed(Cur))

StrRecorderStartDone ==
    /\ rStartPending > 0
    /\ \E granted \in BOOLEAN : StreamStep(RecorderStarted(Cur, granted))

StrRecorderStopEvent ==
    /\ rStopQueued
    /\ StreamStep(StreamSpeechEndsWithClip(RecorderStopped(Cur), rStopWaiters))

StrChunkLoaded ==
    /\ cReads > 0
    /\ StreamStep(ChunkLoaded(Cur))

StrTranscribed ==
    \E t \in DOMAIN srv, ok \in BOOLEAN, text \in Texts :
        /\ srv[t].stage = "received"
        /\ StreamStep(ServerTranscribed(Cur, t, ok, text))

StrReplied ==
    \E t \in DOMAIN srv, ok \in BOOLEAN :
        /\ srv[t].stage = "transcribed"
        /\ StreamStep(ServerReplied(Cur, t, ok))

StrDeliver ==
    \E i \in DOMAIN socks, playOk \in BOOLEAN :
        /\ NextOf(wire, i) # 0
        /\ StreamStep(StreamHandle([Cur EXCEPT !.wire = Without(wire, NextOf(wire, i))],
                                   wire[NextOf(wire, i)], playOk))

StrPlaybackEnded ==
    /\ pPlaying
    /\ StreamStep(Ended(Cur))

StreamNext ==
    \/ StrStart
    \/ StrStop
    \/ StrConnect
    \/ StrConnectError
    \/ StrDrop
    \/ StrInitDone
    \/ StrFrame
    \/ StrSilenceTimer
    \/ StrRecorderStartDone
    \/ StrRecorderStopEvent
    \/ StrChunkLoaded
    \/ StrTranscribed
    \/ StrReplied
    \/ StrDeliver
    \/ StrPlaybackEnded

StreamSpec == Init /\ [][StreamNext]_vars

----------------------------------------------------------------------------
\* The ConversationSocketClient as the streaming coordinator drives it:
\* startConversation and stopConversation are called in any order, sockets
\* connect, fail to connect and lose their connection, and the microphone,
\* when it is granted, stays silent.

SockStep(s) ==
    /\ Len(s.socks) <= MaxClientSockets
    /\ s.dInitPending <= MaxCapture
    /\ s.dLoops <= MaxCapture
    /\ Set(s)

SockStart == SockStep(StreamStartConversation(Cur))

SockStop == SockStep(StreamStopConversation(Cur))

SockConnected ==
    \E i \in DOMAIN socks :
        /\ socks[i].st \in {"connecting", "retrying"}
        /\ SockStep(OnSocketConnect(Cur, i))

SockConnectError ==
    \E i \in DOMAIN socks :
        /\ socks[i].st \in {"connecting", "retrying"}
        /\ SockStep(OnConnectError(Cur, i))

SockDrop ==
    \E i \in DOMAIN socks :
        /\ socks[i].st = "open"
        /\ SockStep(OnSocketDisconnect(Cur, i))

SockInitDone ==
    /\ dInitPending > 0
    /\ \E outcome \in InitOutcomes :
         SockStep(StreamAfterInit(DetectorInitResolved(Cur, outcome, FALSE),
                                  outcome = "granted"))

SockNext ==
    \/ SockStart
    \/ SockStop
    \/ SockConnected
    \/ SockConnectError
    \/ SockDrop
    \/ SockInitDone

SocketSpec == Init /\ [][SockNext]_vars

\* the sockets that are connected or that their manager is still connecting
AliveSockets == {i \in DOMAIN socks : socks[i].st \in {"connecting", "open", "retrying"}}

----------------------------------------------------------------------------
\* Derived notions

\* the detector is armed: it holds an analyser its loop reads
DetectorArmed == dAnalyser

\* the MediaRecorder is capturing
Recording == rMR = "recording"

\* backend exchanges in flight: the voice utterance sent through the client
\* and the typed chat requests
InFlight == (IF cBusy THEN 1 ELSE 0) + BagCardinality(chatPending)

\* the session shows no activity
Idle == ~isListening /\ ~isSpeaking /\ ~isProcessing /\ ~userSpeaking

\* the session states of the design, read off the flags
Listening == isListening /\ ~userSpeaking /\ ~isProcessing /\ ~isSpeaking
Capturing == isListening /\ userSpeaking /\ ~isProcessing /\ ~isSpeaking

\* a typed message that is not blank is submitted
TypedSend == \E text \in Texts : ~IsBlank(text) /\ Step(sendMessageOp(Cur, text))

\* a captured utterance is submitted: the recorder's stop event reaches a
\* speech-end callback awaiting the clip
VoiceSend == rStopWaiters > 0 /\ RecorderStopEvent

\* a voice exchange completes with a transcription that is blank
EmptyTranscription ==
    /\ cBusy
    /\ \E text \in Texts :
         IsBlank(text) /\ Step(ClientCompletes(Cur, [kind |-> "answered", text |-> text]))

\* a voice exchange completes with a transcription, a reply and its audio
VoiceAnswered(text) ==
    /\ cBusy
    /\ ~IsBlank(text)
    /\ Step(ClientCompletes(Cur, [kind |-> "answered", text |-> text]))

\* the state after the step
CurNext == Cur'

\* an initialisation of the detector ends: the microphone is denied, or it is
\* acquired and the AudioContext cannot be created
InitDenied ==
    /\ dInitPending > 0
    /\ \E above \in BOOLEAN :
         Step(ResumeAfterInit(DetectorInitResolved(Cur, "denied", above), FALSE))

InitContextFailed ==
    /\ dInitPending > 0
    /\ \E above \in BOOLEAN :
         Step(ResumeAfterInit(DetectorInitResolved(Cur, "contextFailed", above), FALSE))

\* a voice exchange fails: the client emits an error, or send resolves false,
\* or both
VoiceExchangeFails ==
    /\ cBusy
    /\ \E outcome \in VoiceOutcomes :
         /\ outcome.kind # "answered"
         /\ Step(ClientCompletes(Cur, outcome))

\* playback of a voice reply fails: the clip cannot be fetched, or play() is
\* rejected
PlaybackFails ==
    \E ca \in BagToSet(audioFetch), fetched \in BOOLEAN, playOk \in BOOLEAN :
        /\ ~(fetched /\ playOk)
        /\ Step(AfterAudioFetch(Cur, ca, fetched, playOk))

\* the step sends a voice utterance to the backend
UtteranceSent == cBusy' /\ ~cBusy

\* the step handles a speech-start event
SpeechStartHandled == userSpeaking' /\ ~userSpeaking

\* the positions of the user messages with text t, and of the replies to t
UserAt(t) ==
    {i \in 1..Len(messages) : messages[i].role = User /\ messages[i].content = t}
ReplyAt(t) ==
    {i \in 1..Len(messages) :
        messages[i].role = Assistant /\ messages[i].content = ReplyTo(t)}

\* the chat request of a typed message sent in an active conversation
\* resolves without a message
ChatNoMessage ==
    \E req \in BagToSet(chatPending) :
        req.ca /\ conversationActive /\ Step(AfterChat(Cur, req, "noMessage"))

\* the reply clip of a typed message sent in an active conversation arrives
\* and play() is rejected
TypedPlayRejected ==
    conversationActive /\ TRUE \in BagToSet(ttsPending)
      /\ Step(AfterTts(Cur, TRUE, TRUE, FALSE))

\* nothing of a typed exchange is left that could still resume listening
TypedExchangeOver ==
    chatPending = EmptyBag /\ ttsPending = EmptyBag /\ ~pPlaying

----------------------------------------------------------------------------
\* Claims

\* C1: at most one backend exchange (a voice utterance sent through the
\* client, or a typed chat request) is in flight in every reachable state.
C1_SingleFlight == InFlight <= 1

\* C2: whenever isSpeaking holds, the detector is disarmed and the recorder
\* is not recording.
C2_NoCaptureWhileSpeaking == isSpeaking => (~DetectorArmed /\ ~Recording)

C5_QuietAfterStop ==
    [][(~conversationActive /\ ~conversationActive') =>
         /\ (dAnalyser' => dAnalyser)
         /\ ((pPlaying' /\ ~pPlaying) => pCallback' = [path |-> "typed", ca |-> FALSE])]_vars

\* C6: a second stopConversation right after the first changes nothing.
C6_StopIdempotent ==
    [][StopConversation => stopConversationOp(CurNext) = CurNext]_vars

\* C6 witness: the conversation was stopped while the recorder was capturing,
\* so that a second stop finds isCurrentlyRecording() still true (with no
\* message yet and no speech-end callback waiting, only stopConversation can
\* have queued the recorder's stop event).
C6_StoppedWhileRecording ==
    /\ ~conversationActive /\ Idle
    /\ messages = <<>> /\ rStopWaiters = 0
    /\ rIsRecording /\ rStopQueued /\ rMR = "inactive"

\* C7: startConversation from Idle starts arming the detector, and an
\* initialisation that acquires the microphone leaves isListening true.
C7_StartArms ==
    [][/\ (Idle /\ StartConversation) => dInitPending' = dInitPending + 1
       /\ (dInitPending' < dInitPending /\ dAnalyser') => isListening']_vars

\* C8: a voice exchange that delivers transcription T, reply R and the audio
\* appends exactly (user, T) and then (assistant, R), and enters Speaking:
\* isSpeaking is true, isListening and isProcessing are false.
C8_VoiceTurnAppendsTwo ==
    [][\A text \in Texts :
         VoiceAnswered(text) =>
           /\ messages' = messages \o
                  <<[id |-> now, role |-> User, content |-> text],
                    [id |-> now, role |-> Assistant, content |-> ReplyTo(text)]>>
           /\ isSpeaking' /\ ~isListening' /\ ~isProcessing']_vars

\* C8 witness: one voice turn has been answered and its audio is being fetched.
C8_VoiceTurnAnswered ==
    /\ Len(messages) = 2
    /\ messages[1].role = User /\ messages[2].role = Assistant
    /\ audioFetch # EmptyBag /\ isSpeaking
    /\ chatPending = EmptyBag /\ ttsPending = EmptyBag

\* C9: a blank transcription appends no message, surfaces no error and
\* returns the session to Listening with the detector re-armed (or being
\* re-armed).
C9_EmptyReturnsToListening ==
    [][EmptyTranscription =>
         /\ messages' = messages
         /\ error' = error
         /\ (dAnalyser' \/ dInitPending' > dInitPending)]_vars

\* C10: an utterance, voice or typed, submitted while an exchange is in
\* flight is rejected with an error and starts no second exchange.
C10_SecondRejected ==
    [][(InFlight >= 1 /\ (TypedSend \/ VoiceSend)) =>
         (InFlight' = InFlight /\ error' # "none")]_vars

\* C11: every outcome of a typed message sent in an active conversation
\* re-arms the detector: when the chat response carries no message, or the
\* reply cannot start to play, and nothing of the exchange is left pending,
\* the step arms the detector or starts its initialisation.
C11_TypedOutcomeReArms ==
    [][((ChatNoMessage \/ TypedPlayRejected) /\ TypedExchangeOver') =>
         (dAnalyser' \/ dInitPending' > 0)]_vars

\* C12: the message list is append-only: every step leaves the list it
\* found as a prefix of the list it leaves.
C12_AppendOnly ==
    [][/\ Len(messages') >= Len(messages)
       /\ SubSeq(messages', 1, Len(messages)) = messages]_vars

\* C12 witness: a voice turn put two messages on the list in an active
\* conversation, and the conversation was stopped afterwards (the callback
\* of the reply's playback was created while the conversation was active).
C12_KeptAfterStop ==
    /\ Len(messages) = 2 /\ ~conversationActive /\ Idle
    /\ pCallback = [path |-> "voice", ca |-> TRUE]

\* C14: the ids of the messages on the list are pairwise distinct.
C14_DistinctIds ==
    \A i, j \in 1..Len(messages) : i # j => messages[i].id # messages[j].id

\* C13: the list keeps turn order: a reply stands after the user message it
\* answers, and of two texts each sent once, the reply to the one sent first
\* stands before the reply to the one sent later.
C13_TurnOrder ==
    \A a, b \in TypedTexts :
        \A ua \in UserAt(a), ra \in ReplyAt(a) :
            /\ Cardinality(UserAt(a)) = 1 => ua < ra
            /\ \A ub \in UserAt(b), rb \in ReplyAt(b) :
                 (Cardinality(UserAt(a)) = 1 /\ Cardinality(UserAt(b)) = 1 /\ ua < ub)
                    => ra < rb

\* C15: the speech-start callback is called at most once per run of frames
\* above the threshold: a step calls it once, on a frame above the threshold
\* read while isSpeaking is false, and sets isSpeaking; isSpeaking stays true
\* until the silence timer expires (speech-end) or the detector is stopped.
C15_OneStartPerRun ==
    [][/\ SpeechStartCalled =>
            /\ rStartPending' = rStartPending + 1
            /\ DetFrameAbove \/ DetInitAbove
            /\ ~dIsSpeaking /\ dIsSpeaking'
       /\ (dIsSpeaking /\ ~dIsSpeaking') => (DetTimer \/ DetStop)]_vars

\* C15 witness: a second run of speech is in progress; each run called the
\* speech-start callback once.
C15_SecondRun ==
    /\ dAnalyser /\ dIsSpeaking /\ ~dTimer /\ rStartPending = 2 /\ userSpeaking
    /\ dNewest = "granted" /\ ~dStopped /\ dInitPending = 0 /\ dLoops = 1

\* C16: a frame above the threshold cancels the silence timer; the
\* speech-end callback is called only by the expiry of a timer that was
\* still running, once, and the expiry resets isSpeaking and the timer.
C16_EndAfterSilence ==
    [][/\ (DetFrameAbove \/ DetInitAbove) => ~dTimer'
       /\ (userSpeaking /\ ~userSpeaking') => DetTimer
       /\ DetTimer => (dTimer /\ ~dTimer' /\ ~dIsSpeaking' /\ ~userSpeaking')]_vars

\* C16 witness: the silence timer has expired after a run of speech, on an
\* armed detector.
C16_SpeechEnded ==
    dAnalyser /\ ~dIsSpeaking /\ ~dTimer /\ rStartPending = 1 /\ ~userSpeaking

\* C17: an init that cannot acquire the microphone starts no detection loop,
\* and its callbacks are called neither by that step nor later.
C17_FailedInitSilent ==
    [][/\ (dNewest = "pending" /\ dNewest' = "denied") =>
            (dLoops' = dLoops /\ ~CallbackCalled)
       /\ (dNewest = "denied" /\ dNewest' = "denied") => ~CallbackCalled]_vars

\* C18: stop cancels the silence timer, releases the stream, resets
\* isSpeaking, and a second stop changes nothing; after stop has returned no
\* callback is called until init is called again.
C18_StopSilences ==
    [][/\ DetStop =>
            /\ ~dTimer' /\ ~dStream' /\ ~dIsSpeaking'
            /\ DetectorStop(CurNext) = CurNext
       /\ (dStopped /\ dStopped') => ~CallbackCalled]_vars

\* C19: capture is exclusive: startRecording on a recorder that is recording
\* changes nothing, and the recorder never has a stream open besides the one
\* it holds.
C19_ExclusiveCapture ==
    [][/\ (rIsRecording /\ RecStart) => CurNext = Cur
       /\ ~(rStream' /\ rLeaked')]_vars

\* C20: the clip stopRecording resolves to is made of chunks of the
\* recording it stops only; when it resolves, no stream is left open and
\* isCurrentlyRecording() is false; stopRecording on a recorder that is not
\* recording changes nothing.
C20_OneCleanClip ==
    [][/\ (rStopWaiters > 0 /\ RecStopEvent) =>
            /\ \A i \in 1..Len(ClipOf(Cur)) : ClipOf(Cur)[i] = "current"
            /\ ~rStream' /\ ~rLeaked' /\ ~isCurrentlyRecording(CurNext)
       /\ (StopResolvesNull(Cur) /\ RecStop) => CurNext = Cur]_vars

\* C21: when a clip reaches its natural end, the callback passed with that
\* clip is called and no callback passed with another clip is: the callback
\* of a clip that was superseded is not called at the end of the clip that
\* superseded it.
C21_SupersededSilent ==
    [][PlEnded =>
         \A c \in Clips :
            pObs'.calls[c] =
               IF c = pObs.src /\ pObs.withCb THEN pObs.calls[c] + 1
               ELSE pObs.calls[c]]_vars

\* C21 witness: A was started with a callback, B was started with a callback
\* and has ended; B's callback was called and A's was not.
C21_BSupersededA ==
    /\ pObs.started = [c \in Clips |-> 1]
    /\ pObs.src = "B" /\ ~pPlaying /\ ~pObs.stopped
    /\ pObs.calls = [c \in Clips |-> IF c = "B" THEN 1 ELSE 0]

\* C22: stop halts the playback and calls no callback, and as long as no
\* clip is played after it no callback is called.
C22_StopCallsNothing ==
    [][/\ PlStop => (~pPlaying' /\ pObs'.calls = pObs.calls)
       /\ (pObs.stopped /\ pObs'.stopped) => pObs'.calls = pObs.calls]_vars

\* C22 witness: a clip that was playing with a callback has been stopped and
\* its callback has not been called.
C22_StoppedClip ==
    /\ pObs.stopped /\ ~pPlaying /\ pObs.src = "A" /\ pObs.withCb
    /\ pObs.started["A"] = 1 /\ pObs.calls["A"] = 0 /\ pCallback = ClipCallback("A")

\* C23: the callback passed with a clip has been called exactly as many
\* times as plays of that clip with a callback have reached their natural
\* end: once for each, and never for the end of another play.
C23_OncePerEnd ==
    \A c \in Clips : pObs.calls[c] = pObs.ends[c]

\* C23 witness: A has reached its end twice and B once, each time with a
\* callback, and each end called the clip's callback once.
C23_EndedTwice ==
    /\ pObs.ends["A"] = 2 /\ pObs.calls["A"] = 2
    /\ pObs.ends["B"] = 1 /\ pObs.calls["B"] = 1
    /\ ~pPlaying /\ ~pObs.stopped

\* C26: a detector initialisation that is denied the microphone surfaces the
\* error and does not set isListening, and while that error stands (no
\* startConversation since) no step starts another initialisation.
C26_HaltedUntilStart ==
    [][/\ InitDenied => (error' = FailedInit /\ isListening' = isListening)
       /\ (error = FailedInit /\ error' = FailedInit) =>
             dInitPending' <= dInitPending]_vars

\* C27: when the detector's init fails after the stream was acquired, no
\* stream of the detector is open once the coordinator has handled the
\* failure.
C27_NoStreamAfterFailure ==
    [][InitContextFailed => (~dStream' /\ ~dLeaked')]_vars

\* C28: a microphone acquisition that completes while the conversation is
\* stopped leaves no stream open, no detection armed and no recording
\* running.
C28_NoDanglingAcquisition ==
    [][(~conversationActive /\ (DetectorInitDone \/ RecorderStartDone)) =>
         /\ ~dStream' /\ ~dAnalyser'
         /\ ~rStream' /\ rMR' # "recording"]_vars

\* C29: while the conversation is stopped no voice utterance is sent.
C29_NoSendAfterStop ==
    [][~conversationActive => ~UtteranceSent]_vars

\* C30: the step that sends an utterance leaves the capture stopped and the
\* detector disarmed, and no speech-start is handled while the exchange is in
\* flight.
C30_DisarmedWhileAwaiting ==
    [][/\ UtteranceSent => (~dAnalyser' /\ rMR' # "recording")
       /\ (cBusy /\ cBusy') => ~SpeechStartHandled]_vars

\* C24: of the events of one turn the streaming coordinator's handlers are
\* called with, transcription comes before textResponse and textResponse
\* before audioResponse.
C24_StreamEventOrder ==
    \A i, j \in DOMAIN seen :
        (i < j /\ seen[i].turn = seen[j].turn) =>
            /\ ~(seen[i].ev = "audioResponse"
                   /\ seen[j].ev \in {"textResponse", "transcription"})
            /\ ~(seen[i].ev = "textResponse" /\ seen[j].ev = "transcription")

\* C25: once a socket that lost its connection has used up its reconnection
\* attempts, an error is surfaced, isListening is false and the detector is
\* disarmed.
C25_StopsOnDeadConnection ==
    \A i \in DOMAIN socks :
        (socks[i].st = "failed" /\ socks[i].lost) =>
            (error # "none" /\ ~isListening /\ ~DetectorArmed)

\* C31: a voice exchange that fails while the conversation is active leaves
\* an error surfaced and isProcessing false, and starts exactly one
\* initialisation of the detector.
C31_FailureReArmsOnce ==
    [][(conversationActive /\ VoiceExchangeFails) =>
         /\ error' # "none"
         /\ ~isProcessing'
         /\ dInitPending' = dInitPending + 1]_vars

\* C32: when a reply's playback reaches its end while the conversation is
\* active, isSpeaking becomes false and an initialisation of the detector is
\* started.
C32_PlaybackEndReArms ==
    [][(conversationActive /\ PlaybackEnded) =>
         (~isSpeaking' /\ dInitPending' = dInitPending + 1)]_vars

\* C33: when playback of a voice reply fails while the conversation is
\* active, an error is surfaced, isSpeaking becomes false and an
\* initialisation of the detector is started.
C33_PlaybackFailureRecovers ==
    [][(conversationActive /\ PlaybackFails) =>
         /\ error' # "none"
         /\ ~isSpeaking'
         /\ dInitPending' = dInitPending + 1]_vars

\* C34: at most one of isListening, isProcessing and isSpeaking is true.
C34_OneStateAtATime ==
    /\ ~(isListening /\ isProcessing)
    /\ ~(isListening /\ isSpeaking)
    /\ ~(isProcessing /\ isSpeaking)

\* C39: no stream the detector opened was replaced while open, and at most one
\* detection loop runs.
C39_OneStreamOneLoop == ~dLeaked /\ dLoops <= 1

\* C35: in streaming mode, when the speech-end handler has a clip while the
\* client's socket is disconnected, nothing is emitted and an error is
\* surfaced.
C35_UnsentUtteranceSurfaced ==
    [][(StrRecorderStopEvent /\ rStopWaiters > 0 /\ cSocket # 0
          /\ ~SendAudioChunkOk(Cur)) =>
         /\ cReads' = cReads
         /\ \A i \in DOMAIN socks : socks'[i].buf = socks[i].buf
         /\ error' # "none"]_vars

\* C36: the body of the chat request a sendMessage call adds is the message
\* list as it was at the call, followed by the new user message.
C36_FullHistorySent ==
    [][HistSendMessage =>
         \A req \in BagToSet(chatPending') :
             CopiesIn(req, chatPending') > CopiesIn(req, chatPending) =>
                 /\ Len(req.body) = Len(messages) + 1
                 /\ SubSeq(req.body, 1, Len(messages)) = messages
                 /\ req.body[Len(req.body)].role = User
                 /\ req.body[Len(req.body)].content = req.text
                 /\ req.body = messages']_vars

\* a typed message was sent after a voice turn: its request carries the
\* transcription, the reply and the new message
C36_SentAfterVoiceTurn ==
    \E req \in BagToSet(chatPending) :
        /\ Len(req.body) = 3
        /\ req.body[1].role = User /\ req.body[1].content = VoiceText
        /\ req.body[2].role = Assistant /\ req.body[2].content = ReplyTo(VoiceText)
        /\ req.body[3].role = User /\ req.body[3].content = <<"a">>

\* C37: in every state of the SpeechDetector a pending silence timer implies
\* that isSpeaking is true.
C37_TimerOnlyWhileSpeaking == dTimer => dIsSpeaking

\* the timer is pending on an armed detector
C37_TimerPending ==
    /\ dTimer /\ dIsSpeaking /\ dAnalyser
    /\ dNewest = "granted" /\ ~dStopped /\ rStartPending = 1

\* C38: onSpeechStart is called only when isSpeaking is false and sets it,
\* onSpeechEnd is called only when isSpeaking is true and resets it, and
\* nothing else but stop changes isSpeaking: between stops the two callbacks
\* alternate, onSpeechStart first.
C38_CallbacksAlternate ==
    [][/\ SpeechStartCalled => (~dIsSpeaking /\ dIsSpeaking')
       /\ DetTimer => (dIsSpeaking /\ ~dIsSpeaking')
       /\ (dIsSpeaking' # dIsSpeaking) =>
             (SpeechStartCalled \/ DetTimer \/ DetStop)]_vars

\* onSpeechStart, onSpeechEnd, onSpeechStart and onSpeechEnd were called on
\* one armed detector
C38_TwoRunsEnded ==
    /\ rStartPending = 2 /\ ~userSpeaking /\ ~dIsSpeaking /\ ~dTimer
    /\ dNewest = "granted" /\ ~dStopped /\ dInitPending = 0 /\ dLoops = 1
    /\ ~dLeaked

\* C40: a socket whose connect() has resolved is connected or reconnecting
\* only while it is the socket the client holds: connecting again never
\* leaves such a socket alive.
C40_OneSocket ==
    \A i \in AliveSockets : ~socks[i].waiter => i = cSocket

====
